---- MODULE Spec2Model ----
(***************************************************************************)
(* Model of the structural linter of the GSC IDE (src/main.py,            *)
(* GSCIDEWindow.lint_script): a single forward pass over the characters   *)
(* of the current editor's text that tracks string-literal mode and a      *)
(* stack of open brackets and collects diagnostics, and of the handlers    *)
(* of the window around it: the display of the diagnostics, the debounced  *)
(* live lint, saving and deploying.                                        *)
(*                                                                         *)
(* A text is a sequence of one-character strings.  Positions are the       *)
(* code's: lines are 1-based (enumerate(lines, start=1)), columns are      *)
(* 0-based (j), so the character at column j of a line is line[j+1] here.  *)
(***************************************************************************)
EXTENDS Integers, Sequences, FiniteSets, TLC

\* ------------------------------------------------------------------------
\* Bounds of the model
\* ------------------------------------------------------------------------
\* longest text linted by the single-editor specification Spec
MaxLen == 4
\* longest text held by a tab in the several-tabs specification SpecPasses
MaxPassLen == 2
\* longest text linted by the string-literal specification SpecStrings
MaxStrLen == 5
\* longest text linted by the fair specification SpecTotal
MaxTotalLen == 3
\* longest text typed in the display specification SpecDisplay
MaxDispLen == 3
\* longest text typed in the specifications SpecSave and SpecLive
MaxIdeLen == 1
\* longest text typed in the two-editor specification SpecIde
MaxTabsLen == 1

\* ------------------------------------------------------------------------
\* Characters
\* ------------------------------------------------------------------------
DQ == "\""
SQ == "'"
BS == "\\"
NL == "\n"
\* the form feed: a line boundary for str.splitlines, an ordinary character
\* of a block for the text document
FF == "\f"

\* the line boundaries of str.splitlines that texts are drawn from
LineBoundaries == {NL, FF}

OpenBrackets == {"{", "(", "["}
CloseBrackets == {"}", ")", "]"}
Quotes == {DQ, SQ}

\* the characters texts are drawn from: the six brackets, both quotes, the
\* backslash, an ordinary character and the line terminator
Chars == OpenBrackets \cup CloseBrackets \cup Quotes \cup {BS, "a", NL}

\* the characters of the string-literal specification SpecStrings
StrChars == Quotes \cup {BS, "a", "(", ")", NL}

\* the characters of the display specification SpecDisplay
DispChars == {"(", FF, NL}

\* the characters of the specifications SpecSave and SpecLive
IdeChars == {"(", ")"}

\* the characters of the two-editor specification SpecIde
TabsChars == {"("}

\* the characters of the several-tabs specification SpecPasses
PassChars == {"(", ")", DQ, NL}

\* Python's None for the string-mode fields
NoneChar == "None"
NoneInt == 0 - 1

\* variant: the openers of ) and ] exchanged
pairsSwapped == [c \in CloseBrackets |-> CASE c = "}" -> "{"
                                           [] c = ")" -> "["
                                           [] c = "]" -> "("]

\* pairs = {'}': '{', ')': '(', ']': '['}
pairs == [c \in CloseBrackets |-> CASE c = "}" -> "{"
                                    [] c = ")" -> "("
                                    [] c = "]" -> "["]

SeqsUpTo(S, n) == UNION {[1..k -> S] : k \in 0..n}

Texts == SeqsUpTo(Chars, MaxLen)
PassTexts == SeqsUpTo(PassChars, MaxPassLen)
StrTexts == SeqsUpTo(StrChars, MaxStrLen)
TotalTexts == SeqsUpTo(Chars, MaxTotalLen)
DispTexts == SeqsUpTo(DispChars, MaxDispLen)
IdeTexts == SeqsUpTo(IdeChars, MaxIdeLen)
TabsTexts == SeqsUpTo(TabsChars, MaxTabsLen)

\* the editor tabs of the two specifications
OneTab == {1}
Tabs == {1, 2}

\* ------------------------------------------------------------------------
\* text.splitlines(): every line boundary ends the current line (which
\* may be empty); what follows the last boundary is a line only when it
\* is not empty.
\* ------------------------------------------------------------------------
RECURSIVE SplitFrom(_, _, _, _)
SplitFrom(s, k, line, acc) ==
    IF k > Len(s)
    THEN IF line = <<>> THEN acc ELSE Append(acc, line)
    ELSE IF s[k] \in LineBoundaries
         THEN SplitFrom(s, k + 1, <<>>, Append(acc, line))
         ELSE SplitFrom(s, k + 1, Append(line, s[k]), acc)

splitlines(s) == SplitFrom(s, 1, <<>>, <<>>)

\* ------------------------------------------------------------------------
\* State
\* ------------------------------------------------------------------------
VARIABLES
    docs,               \* tab -> the text of the tab's editor
    cur,                \* the current tab (tab_widget.currentWidget())
    pc,                 \* position of lint_script: idle, scan, string,
                        \* openers, done
    lines,              \* lines = text.splitlines()
    i,                  \* line number of the for loop, 1-based
    j,                  \* column of the while loop, 0-based
    stack,              \* open brackets: records (ch, line, col)
    errors,             \* diagnostics: records (line, col, len, msg)
    in_string,
    string_char,
    string_start_line,
    string_start_col,
    k,                  \* index of the loop over the remaining openers
    results,            \* history: <<tab, text, diagnostics>> of the
                        \* finished passes
    pushes,             \* history: stack.append calls of the pass
    pops,               \* history: stack.pop calls of the pass
    modified,           \* tab -> editor.document().isModified()
    tab_paths,          \* tab -> file name of the tab, or NoPath
    autosave_map,       \* tab -> autosave file name of the tab, or NoPath
    disk,               \* file name -> <<>> or <<content>>
    console,            \* the links of error_console, one per diagnostic
    selections,         \* tab -> the editor's extra selections
    markers,            \* tab -> editor.lint_error_positions
    cursor,             \* tab -> position of the editor's text cursor
    timer,              \* live_lint_timer is running
    timer_tab,          \* history: the tab whose change started the timer
    timer_left,         \* ticks until live_lint_timer times out
    pref_timer,         \* the single shot of the preferences dialog runs
    lint_live,          \* settings value 'lint_live'
    handler,            \* the handler that waits for lint_script to return
    lint_calls,         \* history: lint_script calls made by handler
    last,               \* history: the last finished user action
    open_tabs,          \* the tabs of tab_widget
    autosave_timers,    \* tab -> the editor's entry of _autosave_timers:
                        \* "none", or the timer "idle" or "pending"
    autosave_dir,       \* the autosave directory: the entries of the
                        \* index file ({} when absent) and the artifact
                        \* files, <<>> for a file that is absent
    manager             \* the InjectionManager: plutonium_path and
                        \* custom_paths, the script folders and files it
                        \* made, and its last call with the value returned

scanvars == <<lines, i, j, stack, errors, in_string, string_char,
              string_start_line, string_start_col, k>>
countvars == <<pushes, pops>>
editorvars == <<modified, tab_paths, autosave_map, disk, cursor>>
displayvars == <<console, selections, markers>>
timervars == <<timer, timer_tab, timer_left, pref_timer, lint_live>>
handlervars == <<handler, lint_calls, last>>
autosavevars == <<open_tabs, autosave_timers, autosave_dir>>
idevars == <<editorvars, displayvars, timervars, handlervars, autosavevars,
             manager>>
vars == <<docs, cur, pc, lines, i, j, stack, errors, in_string, string_char,
          string_start_line, string_start_col, k, results, pushes, pops,
          modified, tab_paths, autosave_map, disk, console, selections,
          markers, cursor, timer, timer_tab, timer_left, pref_timer,
          lint_live, handler, lint_calls, last, open_tabs, autosave_timers,
          autosave_dir, manager>>

\* ch = line[j]
ch == lines[i][j + 1]

\* variant: line[j-1] without the guard, which at column 0 is the last
\* character of the line
prevWrapped == lines[i][IF j > 0 THEN j ELSE Len(lines[i])]

\* prev = line[j-1] if j > 0 else ''
prev == IF j > 0 THEN lines[i][j] ELSE ""

\* ch in ('"', "'") and prev != '\\'
QuoteEvent == ch \in Quotes /\ prev # BS

\* variant: any unescaped quote ends the open string
ClosesAnyString == TRUE

\* elif ch == string_char
ClosesString == ch = string_char

\* variant: a closer takes whatever opener is on top
MatchesAnyOpener(st, c) == st # <<>>

\* stack and stack[-1][0] == pairs[ch]
Matches(st, c) == st # <<>> /\ st[Len(st)].ch = pairs[c]

\* variant: stack.clear()
PopAll(st) == <<>>

\* stack.pop()
Pop(st) == SubSeq(st, 1, Len(st) - 1)

\* variant: the diagnostics of the pass before are kept
KeptErrors == errors

\* stack = [] and errors = [] at the start of a pass
NewStack == <<>>
NewErrors == <<>>

\* variant: errors.insert(0, e)
PrependError(errs, e) == <<e>> \o errs

\* errors.append(e)
AppendError(errs, e) == Append(errs, e)

MsgClosing(c) == "Unmatched closing '" \o c \o "'"
MsgOpening(c) == "Unmatched opening '" \o c \o "'"
MsgString == "Unterminated string literal"

\* variants: the column reported 1-based
ClosingErrorOneBased(c, line, col) ==
    [line |-> line, col |-> col + 1, len |-> 1,
     msg |-> "Unmatched closing '" \o c \o "'"]
StringErrorOneBased(line, col) ==
    [line |-> line, col |-> col + 1, len |-> 1,
     msg |-> "Unterminated string literal"]

\* the three diagnostics
ClosingError(c, line, col) ==
    [line |-> line, col |-> col, len |-> 1, msg |-> MsgClosing(c)]
StringError(line, col) ==
    [line |-> line, col |-> col, len |-> 1, msg |-> MsgString]

\* variant: an opener reported one column to the right
OpeningErrorNextCol(o) ==
    [line |-> o.line, col |-> o.col + 1, len |-> 1, msg |-> MsgOpening(o.ch)]

\* the diagnostic of an opener left on the stack
OpeningError(o) ==
    [line |-> o.line, col |-> o.col, len |-> 1, msg |-> MsgOpening(o.ch)]

\* variant: the remaining openers visited innermost first
OpenerAtInnermostFirst(st, n) == st[Len(st) + 1 - n]

\* the entry the loop over the remaining openers visits at its n-th turn
OpenerAt(st, n) == st[n]

\* text = editor.toPlainText(), of the current editor
text == docs[cur]

\* variant: the character after the one read is skipped
NextColSkips == j + 2

\* j += 1
NextCol == j + 1

\* ------------------------------------------------------------------------
\* The text document of an editor: its blocks are separated by the line
\* terminator only, and the text after the last terminator is a block even
\* when it is empty.
\* ------------------------------------------------------------------------
RECURSIVE BlocksFrom(_, _, _, _)
BlocksFrom(s, n, block, acc) ==
    IF n > Len(s)
    THEN Append(acc, block)
    ELSE IF s[n] = NL
         THEN BlocksFrom(s, n + 1, <<>>, Append(acc, block))
         ELSE BlocksFrom(s, n + 1, Append(block, s[n]), acc)

Blocks(t) == BlocksFrom(t, 1, <<>>, <<>>)

\* editor.document().findBlockByNumber(b).isValid()
BlockValid(t, b) == b \in 0..(Len(Blocks(t)) - 1)

\* block.position() of block number b
RECURSIVE BlockPosition(_, _)
BlockPosition(t, b) ==
    IF b = 0 THEN 0
    ELSE BlockPosition(t, b - 1) + Len(Blocks(t)[b]) + 1

\* ------------------------------------------------------------------------
\* The display of the diagnostics
\* ------------------------------------------------------------------------
\* <a href="pos:{ln}:{col}">[Ln {ln}:Col {col}] {msg}</a>: the href as its
\* fields between the colons
Link(e) == [href |-> <<"pos", e.line, e.col>>,
            label |-> <<e.line, e.col, e.msg>>]

ConsoleOf(errs) == [n \in 1..Len(errs) |-> Link(errs[n])]

\* the diagnostics whose block is valid; the others are skipped (continue)
Underlined(t, errs) ==
    SelectSeq(errs, LAMBDA e : BlockValid(t, e.line - 1))

\* start_pos = block.position() + col
StartPos(t, e) == BlockPosition(t, e.line - 1) + e.col

\* (start_pos, length) with length = max(1, e.get('len', 1))
MarkerOf(t, e) == <<StartPos(t, e), IF e.len > 1 THEN e.len ELSE 1>>

\* the range of the QTextCursor of a selection: setPosition ignores a
\* position outside the document
SelectionOf(t, e) ==
    LET m == MarkerOf(t, e)
    IN IF m[1] > Len(t) THEN <<0, 0>>
       ELSE IF m[1] + m[2] > Len(t) THEN <<m[1], 0>>
       ELSE m

PosList(t, errs) ==
    [n \in 1..Len(Underlined(t, errs)) |-> MarkerOf(t, Underlined(t, errs)[n])]

Sels(t, errs) ==
    [n \in 1..Len(Underlined(t, errs)) |->
        SelectionOf(t, Underlined(t, errs)[n])]

\* editor.lint_error_positions after the pass: cleared when there is no
\* diagnostic, set at every iteration that is not skipped, else left alone
MarkersAfter(old, t, errs) ==
    IF errs = <<>> THEN <<>>
    ELSE IF Underlined(t, errs) = <<>> THEN old
    ELSE PosList(t, errs)

\* the editor's extra selections after the pass
SelectionsAfter(old, t, errs) ==
    IF errs = <<>> THEN <<>>
    ELSE IF Underlined(t, errs) = <<>> THEN old
    ELSE Sels(t, errs)

\* ------------------------------------------------------------------------
\* Files, settings and user actions
\* ------------------------------------------------------------------------
NoPath == "None"
\* the file names a save dialog can return
Paths == {"p1"}
\* the file deploy_script writes
DeployPath == "deploy"
AllPaths == Paths \cup {DeployPath}

\* the default template of a new editor, a text without diagnostics
Template == <<"(", ")">>

\* values of the setting 'lint_live': a bool or a string
BoolValue(b) == [isstr |-> FALSE, s |-> "", b |-> b]
StrValue(x) == [isstr |-> TRUE, s |-> x, b |-> FALSE]
LintLiveStrings ==
    {"1", "true", "yes", "on", "0", "false", "no", "off", "True", "OFF"}
LintLiveValues ==
    {BoolValue(b) : b \in BOOLEAN} \cup {StrValue(x) : x \in LintLiveStrings}

\* str.lower() on the strings above
Lower(x) == IF x = "True" THEN "true" ELSE IF x = "OFF" THEN "off" ELSE x

\* variant: a string is not converted, it counts as true unless empty
LiveLintEnabledTruthy ==
    IF lint_live.isstr
    THEN lint_live.s # ""
    ELSE lint_live.b

\* live_lint_timer.setInterval(500), in ticks
DebounceTicks == 2

\* variant: a running timer is left to run, only a stopped one is started
StartedTimerIfStopped(running, left) ==
    IF running THEN left ELSE DebounceTicks

\* live_lint_timer.start(): the timer runs its whole interval from now,
\* whether it was running or not
StartedTimer(running, left) == DebounceTicks

\* lint_live as schedule_live_lint evaluates it
LiveLintEnabled ==
    IF lint_live.isstr
    THEN Lower(lint_live.s) \in {"1", "true", "yes", "on"}
    ELSE lint_live.b

\* the file name autosave_editor gives the artifact of an editor
AutosaveFile(t) == "autosave_" \o ToString(t)

\* the artifact names a previous session left in the autosave directory,
\* in the order of its index
OldFileList == <<"old_1", "old_2">>
OldFiles == {OldFileList[n] : n \in 1..Len(OldFileList)}

\* the characters str.strip() removes
Whitespace == {NL, FF, " "}

RECURSIVE LStrip(_)
LStrip(t) ==
    IF t # <<>> /\ Head(t) \in Whitespace THEN LStrip(Tail(t)) ELSE t

RECURSIVE RStrip(_)
RStrip(t) ==
    IF t # <<>> /\ t[Len(t)] \in Whitespace
    THEN RStrip(SubSeq(t, 1, Len(t) - 1))
    ELSE t

\* content.strip()
Strip(t) == RStrip(LStrip(t))

\* json.dump of a string, without the enclosing quotes: the escapes
JsonChar(c) ==
    IF c = DQ THEN <<BS, DQ>>
    ELSE IF c = BS THEN <<BS, BS>>
    ELSE IF c = NL THEN <<BS, "n">>
    ELSE IF c = FF THEN <<BS, "f">>
    ELSE <<c>>

RECURSIVE JsonDump(_)
JsonDump(t) ==
    IF t = <<>> THEN <<>> ELSE JsonChar(Head(t)) \o JsonDump(Tail(t))

\* variant: the letter of an escape is taken as it is
JsonUnescapedKept(c) == c

\* json.load of a string: a backslash takes the character after it
JsonUnescaped(c) == IF c = "n" THEN NL ELSE IF c = "f" THEN FF ELSE c

RECURSIVE JsonLoad(_)
JsonLoad(x) ==
    IF x = <<>> THEN <<>>
    ELSE IF Head(x) = BS /\ Len(x) >= 2
         THEN <<JsonUnescaped(x[2])>> \o JsonLoad(Tail(Tail(x)))
         ELSE <<Head(x)>> \o JsonLoad(Tail(x))

\* json.load accepts the string: no bare quote or control character, and
\* a backslash only before a character it can escape
RECURSIVE JsonValid(_)
JsonValid(x) ==
    IF x = <<>> THEN TRUE
    ELSE IF Head(x) = BS
         THEN /\ Len(x) >= 2
              /\ x[2] \in {DQ, BS, "n", "f"}
              /\ JsonValid(Tail(Tail(x)))
         ELSE Head(x) \notin {DQ, NL, FF} /\ JsonValid(Tail(x))

\* variant: a document with lint markers is not written
WriteFileIfClean(d, p, t, marks) ==
    IF marks = <<>> THEN [d EXCEPT ![p] = t] ELSE d

\* open(p, 'w') and f.write(t): the files after the write; the markers of
\* the editor are not consulted
WriteFile(d, p, t, marks) == [d EXCEPT ![p] = t]

\* no user action has finished yet
NoAction == [name |-> "none", lints |-> 0, wrote |-> FALSE, link |-> 0]
Finished(name, lints, wrote) ==
    [name |-> name, lints |-> lints, wrote |-> wrote, link |-> 0]

\* the initial editor is attached before autosave_dir is set and gets no
\* autosave timer; an editor of new_tab gets one
InitialTimer(t) == IF t = 1 THEN "none" ELSE "idle"

\* the autosave directory without index and without artifacts; the index
\* is the set of its entries, the empty set when the file is absent
EmptyDir ==
    [index |-> {},
     files |-> [f \in {AutosaveFile(t) : t \in DOMAIN docs} |-> <<>>]]

\* the window after construction: untouched editors, nothing saved
InitWindow(v) ==
    /\ pushes = 0
    /\ pops = 0
    /\ modified = [t \in DOMAIN docs |-> FALSE]
    /\ tab_paths = [t \in DOMAIN docs |-> NoPath]
    /\ autosave_map = [t \in DOMAIN docs |-> NoPath]
    /\ disk = [p \in AllPaths |-> <<>>]
    /\ console = <<>>
    /\ selections = [t \in DOMAIN docs |-> <<>>]
    /\ markers = [t \in DOMAIN docs |-> <<>>]
    /\ cursor = [t \in DOMAIN docs |-> 0]
    /\ timer = FALSE
    /\ timer_tab = 1
    /\ timer_left = 0
    /\ pref_timer = FALSE
    /\ lint_live = v
    /\ handler = "none"
    /\ lint_calls = 0
    /\ last = NoAction

\* a path is the sequence of its parts; None and the empty string are <<>>
Storage == <<"C:", "Plutonium", "storage">>

\* Path.is_absolute(): the path starts with a drive
IsAbsolute(p) == p # <<>> /\ p[1] \in {"C:", "D:"}

\* a / b of pathlib: an absolute b replaces a
Join(a, b) == IF IsAbsolute(b) THEN b ELSE a \o b

\* TargetGame and GameMode, and a mode outside the enum
Games == 0..3
Modes == 0..3
\* InjectionMethod, and a method outside the enum
Methods == 0..3

\* the layout of a game below the base
GameDir(game) ==
    CASE game = 0 -> <<"t6", "scripts">>
      [] game = 1 -> <<"t5", "raw", "scripts">>
      [] game = 2 -> <<"t4", "scripts">>
      [] game = 3 -> <<"iw5", "scripts">>

\* game_paths.get(mode, game_paths.get(GameMode.BOTH))
ModeDir(mode) ==
    IF mode = 0 THEN <<"mp">> ELSE IF mode = 1 THEN <<"zm">> ELSE <<>>

\* custom_paths.get(game), <<>> for None
Override(m, game) ==
    IF game \in DOMAIN m.custom_paths THEN m.custom_paths[game] ELSE <<>>

\* get_script_path: the folder returned, <<>> for None
ScriptPath(m, game, mode) ==
    IF m.plutonium_path = <<>> THEN <<>>
    ELSE LET override == Override(m, game)
             base == IF override = <<>> THEN m.plutonium_path
                     ELSE IF IsAbsolute(override) THEN override
                     ELSE Join(m.plutonium_path, override)
         IN Join(Join(base, GameDir(game)), ModeDir(mode))

GscSuffix == <<".", "g", "s", "c">>

\* str.endswith
EndsWith(x, suffix) ==
    /\ Len(x) >= Len(suffix)
    /\ SubSeq(x, Len(x) - Len(suffix) + 1, Len(x)) = suffix

\* script_name after 'Ensure .gsc extension'
WithGsc(name) == IF EndsWith(name, GscSuffix) THEN name ELSE name \o GscSuffix

\* a character the utf-8 encoder of f.write rejects
LoneSurrogate == "\\ud800"
Encodable(script) == \A n \in 1..Len(script) : script[n] # LoneSurrogate

\* the overrides of the preferences: none or empty, absolute, relative
OverrideValues == {<<>>, <<"D:", "mods">>, <<"mods">>}

\* the script texts and script names given to inject_script
Scripts == {<<>>, <<"(", NL>>, <<LoneSurrogate>>}
ScriptNames ==
    {<<"a">>, <<"a", ".", "g", "s", "c">>, <<"a", ".", "g", "s">>}

\* no call of the manager has been made
NoCall == [call |-> "none"]

\* InjectionManager(): plutonium_path as detected, custom_paths = {}
NewManager(path) ==
    [plutonium_path |-> path, custom_paths |-> <<>>, dirs |-> {},
     files |-> {}, result |-> NoCall]

\* the window of a first session, every tab open: nothing to recover
InitIdeWith(v) ==
    /\ InitWindow(v)
    /\ manager = NewManager(Storage)
    /\ open_tabs = DOMAIN docs
    /\ autosave_timers = [t \in DOMAIN docs |-> InitialTimer(t)]
    /\ autosave_dir = EmptyDir

\* the setting 'lint_live' is absent: its default is True
InitIde == InitIdeWith(BoolValue(TRUE))

InitLocals ==
    /\ pc = "idle"
    /\ lines = <<>>
    /\ i = 1
    /\ j = 0
    /\ stack = <<>>
    /\ errors = <<>>
    /\ in_string = FALSE
    /\ string_char = NoneChar
    /\ string_start_line = NoneInt
    /\ string_start_col = NoneInt
    /\ k = 1
    /\ results = {}

\* a window whose manager found the Plutonium storage folder or not
InitInject ==
    /\ docs = [t \in OneTab |-> Template]
    /\ cur = 1
    /\ InitLocals
    /\ InitWindow(BoolValue(TRUE))
    /\ open_tabs = DOMAIN docs
    /\ autosave_timers = [t \in DOMAIN docs |-> InitialTimer(t)]
    /\ autosave_dir = EmptyDir
    /\ \E path \in {<<>>, Storage} : manager = NewManager(path)

\* one editor holding any text
Init ==
    /\ docs \in [OneTab -> Texts]
    /\ cur = 1
    /\ InitLocals
    /\ InitIde

\* one editor holding a text of quotes, escapes and few brackets
InitStrings ==
    /\ docs \in [OneTab -> StrTexts]
    /\ cur = 1
    /\ InitLocals
    /\ InitIde

\* one editor holding any short text
InitTotal ==
    /\ docs \in [OneTab -> TotalTexts]
    /\ cur = 1
    /\ InitLocals
    /\ InitIde

\* several tabs, each holding a text
InitPasses ==
    /\ docs \in [Tabs -> PassTexts]
    /\ cur \in Tabs
    /\ InitLocals
    /\ InitIde

\* no handler is running
Idle == pc \in {"idle", "done", "raised"} /\ handler = "none"

\* lint_script is entered: the text is read and split, the locals are fresh
StartPass ==
    /\ pc' = "scan"
    /\ lines' = splitlines(text)
    /\ i' = 1
    /\ j' = 0
    /\ stack' = NewStack
    /\ errors' = NewErrors
    /\ in_string' = FALSE
    /\ string_char' = NoneChar
    /\ string_start_line' = NoneInt
    /\ string_start_col' = NoneInt
    /\ k' = 1
    /\ pushes' = 0
    /\ pops' = 0
    /\ UNCHANGED <<docs, cur, results>>

\* lint_script called on its own
LintStart ==
    /\ Idle
    /\ StartPass
    /\ UNCHANGED idevars

\* one iteration of the while loop: the character at (i, j)
ScanChar ==
    /\ pc = "scan"
    /\ i <= Len(lines)
    /\ j < Len(lines[i])
    /\ IF QuoteEvent
       THEN /\ IF ~in_string
               THEN /\ in_string' = TRUE
                    /\ string_char' = ch
                    /\ string_start_line' = i
                    /\ string_start_col' = j
               ELSE IF ClosesString
                    THEN /\ in_string' = FALSE
                         /\ string_char' = NoneChar
                         /\ string_start_line' = NoneInt
                         /\ string_start_col' = NoneInt
                    ELSE UNCHANGED <<in_string, string_char,
                                     string_start_line, string_start_col>>
            /\ UNCHANGED <<stack, errors, countvars>>
       ELSE /\ IF ~in_string
               THEN IF ch \in OpenBrackets
                    THEN /\ stack' = Append(stack,
                                        [ch |-> ch, line |-> i, col |-> j])
                         /\ pushes' = pushes + 1
                         /\ UNCHANGED <<errors, pops>>
                    ELSE IF ch \in CloseBrackets
                         THEN IF Matches(stack, ch)
                              THEN /\ stack' = Pop(stack)
                                   /\ pops' = pops + 1
                                   /\ UNCHANGED <<errors, pushes>>
                              ELSE /\ errors' = AppendError(errors,
                                                    ClosingError(ch, i, j))
                                   /\ UNCHANGED <<stack, countvars>>
                         ELSE UNCHANGED <<stack, errors, countvars>>
               ELSE UNCHANGED <<stack, errors, countvars>>
            /\ UNCHANGED <<in_string, string_char,
                           string_start_line, string_start_col>>
    /\ j' = NextCol
    /\ UNCHANGED <<docs, cur, pc, lines, i, k, results, idevars>>

\* variant: a string ends with its line
NextLineEndsString ==
    /\ pc = "scan"
    /\ i <= Len(lines)
    /\ j >= Len(lines[i])
    /\ i' = i + 1
    /\ j' = 0
    /\ in_string' = FALSE
    /\ string_char' = NoneChar
    /\ string_start_line' = NoneInt
    /\ string_start_col' = NoneInt
    /\ UNCHANGED <<docs, cur, pc, lines, stack, errors, k, results,
                   countvars, idevars>>

\* the while loop of a line ends; the for loop takes the next line
NextLine ==
    /\ pc = "scan"
    /\ i <= Len(lines)
    /\ j >= Len(lines[i])
    /\ i' = i + 1
    /\ j' = 0
    /\ UNCHANGED <<docs, cur, pc, lines, stack, errors, in_string, string_char,
                   string_start_line, string_start_col, k, results,
                   countvars, idevars>>

\* the for loop is exhausted
EndOfText ==
    /\ pc = "scan"
    /\ i > Len(lines)
    /\ pc' = "string"
    /\ UNCHANGED <<docs, cur, lines, i, j, stack, errors, in_string,
                   string_char, string_start_line, string_start_col, k,
                   results, countvars, idevars>>

\* if in_string and string_start_line is not None: report the open string
ReportString ==
    /\ pc = "string"
    /\ IF in_string /\ string_start_line # NoneInt
       THEN errors' = AppendError(errors,
                          StringError(string_start_line, string_start_col))
       ELSE UNCHANGED errors
    /\ pc' = "openers"
    /\ k' = 1
    /\ UNCHANGED <<docs, cur, lines, i, j, stack, in_string, string_char,
                   string_start_line, string_start_col, results,
                   countvars, idevars>>

\* for opener, line_no, col in stack: one iteration
ReportOpening ==
    /\ pc = "openers"
    /\ k <= Len(stack)
    /\ errors' = AppendError(errors, OpeningError(OpenerAt(stack, k)))
    /\ k' = k + 1
    /\ UNCHANGED <<docs, cur, pc, lines, i, j, stack, in_string, string_char,
                   string_start_line, string_start_col, results,
                   countvars, idevars>>

\* variant: the first editor of the window (self.editor) is the one marked
LintedEditorFirst ==
    CHOOSE t \in DOMAIN docs : \A u \in DOMAIN docs : t <= u

\* editor = self.current_editor(): the editor lint_script reads and marks
LintedEditor == cur

\* the diagnostics are complete: they are listed in the console and marked
\* in the editor, and lint_script returns
LintEnd ==
    /\ pc = "openers"
    /\ k > Len(stack)
    /\ pc' = "done"
    /\ results' = results \cup {<<cur, text, errors>>}
    /\ console' = ConsoleOf(errors)
    /\ markers' = [markers EXCEPT
                      ![LintedEditor] = MarkersAfter(@, text, errors)]
    /\ selections' = [selections EXCEPT
                      ![LintedEditor] = SelectionsAfter(@, text, errors)]
    /\ UNCHANGED <<docs, cur, lines, i, j, stack, errors, in_string,
                   string_char, string_start_line, string_start_col, k,
                   countvars, editorvars, timervars, handlervars,
                   autosavevars, manager>>

\* data = {'filename': ..., 'content': ...} as json.dump writes it
Artifact(t) == [filename |-> tab_paths[t], content |-> JsonDump(docs[t])]

\* the index entries of the editors that map gives an artifact
IndexOf(map) ==
    {[file |-> map[t], filename |-> tab_paths[t]] :
        t \in {u \in DOMAIN map : map[u] # NoPath}}

\* autosave_editor(t): the artifact is written under the name the editor
\* has or gets, the index lists every editor of autosave_map
DirAfterAutosave(t) ==
    [index |-> IndexOf([autosave_map EXCEPT ![t] = AutosaveFile(t)]),
     files |-> [autosave_dir.files EXCEPT ![AutosaveFile(t)] = <<Artifact(t)>>]]

\* remove_autosave_for(t): without an entry in autosave_map nothing
\* happens; else the artifact is removed and the index is rebuilt from the
\* entries left, or removed with the last one
DirAfterRemove(t) ==
    IF autosave_map[t] = NoPath THEN autosave_dir
    ELSE [index |-> IndexOf([autosave_map EXCEPT ![t] = NoPath]),
          files |-> [autosave_dir.files EXCEPT ![autosave_map[t]] = <<>>]]

\* the user selects another tab between two lint passes
SwitchTab ==
    /\ Idle
    /\ \E t \in open_tabs : t # cur /\ cur' = t
    /\ UNCHANGED <<docs, pc, scanvars, results, countvars, idevars>>

\* the user changes the text of the current editor to a text of T:
\* textChanged runs schedule_live_lint
Edit(T) ==
    /\ Idle
    /\ \E new \in T :
         /\ new # docs[cur]
         /\ docs' = [docs EXCEPT ![cur] = new]
         /\ cursor' = [cursor EXCEPT ![cur] = Len(new)]
    /\ modified' = [modified EXCEPT ![cur] = TRUE]
    /\ results' = {r \in results : r[1] # cur}
    /\ IF LiveLintEnabled
       THEN /\ timer' = TRUE
            /\ timer_tab' = cur
            /\ timer_left' = StartedTimer(timer, timer_left)
       ELSE UNCHANGED <<timer, timer_tab, timer_left>>
    /\ autosave_timers' =
          IF autosave_timers[cur] = "none" THEN autosave_timers
          ELSE [autosave_timers EXCEPT ![cur] = "pending"]
    /\ last' = Finished("edit", 0, FALSE)
    /\ UNCHANGED <<cur, pc, scanvars, countvars, tab_paths, autosave_map,
                   disk, displayvars, pref_timer, lint_live, handler,
                   lint_calls, open_tabs, autosave_dir, manager>>

EditDisplay == Edit(DispTexts)

\* live_lint_timer times out: lint_script runs on the current editor
TimerFire ==
    /\ Idle
    /\ timer
    /\ timer' = FALSE
    /\ timer_left' = 0
    /\ StartPass
    /\ UNCHANGED <<editorvars, displayvars, timer_tab, pref_timer, lint_live,
                   handlervars, autosavevars, manager>>

\* set_custom_paths with an override for one game: a path, or an empty
\* value that is stored as None
SetCustomPaths ==
    /\ manager.result = NoCall
    /\ \E g \in Games, v \in OverrideValues :
         manager' = [manager EXCEPT !.custom_paths = [x \in {g} |-> v]]
    /\ UNCHANGED <<docs, cur, pc, scanvars, results, countvars, editorvars,
                   displayvars, timervars, handlervars, autosavevars>>

\* the folders after target_path.mkdir, which succeeds (mk) or fails
DirsAfter(m, path, mk) ==
    IF path # <<>> /\ mk THEN m.dirs \cup {path} ELSE m.dirs

\* get_script_path is called
GetScriptPath ==
    /\ manager.result = NoCall
    /\ \E game \in Games, mode \in Modes, mk \in BOOLEAN :
         LET path == ScriptPath(manager, game, mode)
         IN manager' = [manager EXCEPT
                !.dirs = DirsAfter(manager, path, mk),
                !.result = [call |-> "get_script_path", game |-> game,
                            mode |-> mode, folder |-> path]]
    /\ UNCHANGED <<docs, cur, pc, scanvars, results, countvars, editorvars,
                   displayvars, timervars, handlervars, autosavevars>>

\* the files after open(full_path, 'w') and f.write(script): open creates
\* or truncates the file, then the encoder rejects the text or it is written
FilesAfterWrite(files, folder, name, script) ==
    {f \in files : f.dir # folder \/ f.name # name} \cup
        {[dir |-> folder, name |-> name,
          content |-> IF Encodable(script) THEN script ELSE <<>>]}

\* inject_script is called; mkdir succeeds or not (mk), and so does open
\* (op) when the folder exists
InjectScript ==
    /\ manager.result = NoCall
    /\ \E script \in Scripts, game \in Games, method \in Methods,
          mode \in Modes, name \in ScriptNames, mk \in BOOLEAN,
          op \in BOOLEAN :
         LET call == [call |-> "inject_script", game |-> game,
                      mode |-> mode, method |-> method, name |-> name,
                      script |-> script, folder |-> <<>>, ok |-> FALSE,
                      msg |-> ""]
             path == ScriptPath(manager, game, mode)
             dirs == DirsAfter(manager, path, mk)
         IN IF method # 0
            THEN /\ mk /\ op
                 /\ manager' = [manager EXCEPT
                        !.result = [call EXCEPT
                            !.msg = IF method = 1 THEN "not recommended"
                                    ELSE IF method = 2 THEN "coming soon"
                                    ELSE "unknown method"]]
            ELSE IF path = <<>>
            THEN /\ mk /\ op
                 /\ manager' = [manager EXCEPT
                        !.result = [call EXCEPT !.msg = "not found"]]
            ELSE IF ~(op /\ path \in dirs)
            THEN /\ ~op
                 /\ manager' = [manager EXCEPT
                        !.dirs = dirs,
                        !.result = [call EXCEPT !.folder = path,
                                                !.msg = "failed to write"]]
            ELSE manager' = [manager EXCEPT
                        !.dirs = dirs,
                        !.files = FilesAfterWrite(@, path, WithGsc(name),
                                                  script),
                        !.result = [call EXCEPT !.folder = path,
                            !.ok = Encodable(script),
                            !.msg = IF Encodable(script) THEN "deployed"
                                    ELSE "failed to write"]]
    /\ UNCHANGED <<docs, cur, pc, scanvars, results, countvars, editorvars,
                   displayvars, timervars, handlervars, autosavevars>>

\* time passes while live_lint_timer runs: one tick less is left
Tick ==
    /\ timer
    /\ timer_left > 0
    /\ timer_left' = timer_left - 1
    /\ UNCHANGED <<docs, cur, pc, scanvars, results, countvars, editorvars,
                   displayvars, timer, timer_tab, pref_timer, lint_live,
                   handlervars, autosavevars, manager>>

\* live_lint_timer times out when its interval has passed
TimerDue ==
    /\ timer_left = 0
    /\ TimerFire

\* save_file on a tab that has a path: the file is written (or the write
\* fails), lint_script is not called
SaveFile ==
    /\ Idle
    /\ tab_paths[cur] # NoPath
    /\ \E ok \in BOOLEAN :
         IF ok
         THEN /\ disk' = WriteFile(disk, tab_paths[cur], text, markers[cur])
              /\ modified' = [modified EXCEPT ![cur] = FALSE]
              /\ autosave_map' = [autosave_map EXCEPT ![cur] = NoPath]
              /\ autosave_dir' = DirAfterRemove(cur)
              /\ last' = Finished("save_file", 0, TRUE)
         ELSE /\ last' = Finished("save_file", 0, FALSE)
              /\ UNCHANGED <<disk, modified, autosave_map, autosave_dir>>
    /\ UNCHANGED <<docs, cur, pc, scanvars, results, countvars, tab_paths,
                   cursor, displayvars, timervars, handler, lint_calls,
                   open_tabs, autosave_timers, manager>>

\* save_file_as, entered directly or from save_file on an untitled tab (name
\* tells which): the dialog gives a path or is cancelled (NoPath); after a
\* write that succeeds lint_script is called, after one that fails
\* remove_autosave_for runs at once
SaveFileAs ==
    /\ Idle
    /\ \E name \in {"save_file", "save_file_as"}, p \in Paths \cup {NoPath},
          ok \in BOOLEAN :
         /\ name = "save_file" => tab_paths[cur] = NoPath
         /\ IF p # NoPath /\ ok
            THEN /\ disk' = WriteFile(disk, p, text, markers[cur])
                 /\ tab_paths' = [tab_paths EXCEPT ![cur] = p]
                 /\ modified' = [modified EXCEPT ![cur] = FALSE]
                 /\ handler' = name
                 /\ lint_calls' = 1
                 /\ StartPass
                 /\ UNCHANGED <<autosave_map, autosave_dir, last>>
            ELSE /\ autosave_map' =
                       IF p = NoPath THEN autosave_map
                       ELSE [autosave_map EXCEPT ![cur] = NoPath]
                 /\ autosave_dir' =
                       IF p = NoPath THEN autosave_dir
                       ELSE DirAfterRemove(cur)
                 /\ last' = Finished(name, 0, FALSE)
                 /\ UNCHANGED <<docs, cur, pc, scanvars, results, countvars,
                                disk, tab_paths, modified, handler,
                                lint_calls>>
    /\ UNCHANGED <<cursor, displayvars, timervars, open_tabs,
                   autosave_timers, manager>>

\* save_file_as after its call of lint_script, which returned or raised:
\* remove_autosave_for, then the handler returns
SaveReturn ==
    /\ handler \in {"save_file", "save_file_as"}
    /\ pc \in {"done", "raised"}
    /\ autosave_map' = [autosave_map EXCEPT ![cur] = NoPath]
    /\ autosave_dir' = DirAfterRemove(cur)
    /\ handler' = "none"
    /\ lint_calls' = 0
    /\ last' = Finished(handler, lint_calls, TRUE)
    /\ UNCHANGED <<docs, cur, pc, scanvars, results, countvars, modified,
                   tab_paths, disk, cursor, displayvars, timervars,
                   open_tabs, autosave_timers, manager>>

\* deploy_script: inject_script writes the text (or fails); after a
\* success lint_script is called
Deploy ==
    /\ Idle
    /\ \E ok \in BOOLEAN :
         IF ok
         THEN /\ disk' = WriteFile(disk, DeployPath, text, markers[cur])
              /\ handler' = "deploy_script"
              /\ lint_calls' = 1
              /\ StartPass
              /\ UNCHANGED last
         ELSE /\ last' = Finished("deploy_script", 0, FALSE)
              /\ UNCHANGED <<docs, cur, pc, scanvars, results, countvars,
                             disk, handler, lint_calls>>
    /\ UNCHANGED <<modified, tab_paths, autosave_map, cursor, displayvars,
                   timervars, autosavevars, manager>>

\* deploy_script after its call of lint_script, which returned or raised
DeployReturn ==
    /\ handler = "deploy_script"
    /\ pc \in {"done", "raised"}
    /\ handler' = "none"
    /\ lint_calls' = 0
    /\ last' = Finished(handler, lint_calls, TRUE)
    /\ UNCHANGED <<docs, cur, pc, scanvars, results, countvars, editorvars,
                   displayvars, timervars, autosavevars, manager>>

\* lint_script raises while save_file_as or deploy_script runs it: the
\* except clause of the caller takes over
LintRaise ==
    /\ handler # "none"
    /\ pc \in {"scan", "string", "openers"}
    /\ pc' = "raised"
    /\ UNCHANGED <<docs, cur, scanvars, results, countvars, idevars>>

\* the autosave timer of editor t, started by a text change, times out:
\* autosave_editor(t) writes the artifact and the index, whether or not
\* the document is modified and the tab is still open
Autosave ==
    /\ Idle
    /\ \E t \in DOMAIN docs :
         /\ autosave_timers[t] = "pending"
         /\ autosave_timers' = [autosave_timers EXCEPT ![t] = "idle"]
         /\ autosave_map' = [autosave_map EXCEPT ![t] = AutosaveFile(t)]
         /\ autosave_dir' = DirAfterAutosave(t)
    /\ last' = Finished("autosave_editor", 0, FALSE)
    /\ UNCHANGED <<docs, cur, pc, scanvars, results, countvars, modified,
                   tab_paths, disk, cursor, displayvars, timervars, handler,
                   lint_calls, open_tabs, manager>>

\* variant: every open tab is written
AutosavedTabsAll == open_tabs

\* the tabs autosave_all writes: the open tabs whose document is modified
AutosavedTabs == {t \in open_tabs : modified[t]}

\* autosave_map after autosave_all: a written tab keeps its name or gets one
MapAfterAutosaveAll ==
    [t \in DOMAIN docs |->
        IF t \in AutosavedTabs /\ autosave_map[t] = NoPath
        THEN AutosaveFile(t)
        ELSE autosave_map[t]]

\* the directory after autosave_all: the artifacts of the written tabs hold
\* their text and path, the index lists the written tabs only and is
\* removed when there is none
DirAfterAutosaveAll ==
    LET map == MapAfterAutosaveAll
    IN [index |-> {[file |-> map[t], filename |-> tab_paths[t]] :
                      t \in AutosavedTabs},
        files |-> [f \in DOMAIN autosave_dir.files |->
                     IF \E t \in AutosavedTabs : map[t] = f
                     THEN <<Artifact(CHOOSE t \in AutosavedTabs : map[t] = f)>>
                     ELSE autosave_dir.files[f]]]

\* autosave_timer (10 s) times out: autosave_all
AutosaveAll ==
    /\ Idle
    /\ autosave_map' = MapAfterAutosaveAll
    /\ autosave_dir' = DirAfterAutosaveAll
    /\ last' = Finished("autosave_all", 0, FALSE)
    /\ UNCHANGED <<docs, cur, pc, scanvars, results, countvars, modified,
                   tab_paths, disk, cursor, displayvars, timervars, handler,
                   lint_calls, open_tabs, autosave_timers, manager>>

\* tab_widget.removeTab: the tab leaves the window and a remaining tab
\* becomes current; tab_paths, autosave_map and the timer of the editor stay
RemoveTab(t) ==
    /\ open_tabs' = open_tabs \ {t}
    /\ \E u \in open_tabs \ {t} : cur' = u

\* close_tab on the current tab while another tab stays open. A modified
\* document asks Yes / No / Cancel; Yes runs save_file, which writes the
\* file of a titled tab and runs save_file_as on an untitled one
CloseTab ==
    /\ Idle
    /\ open_tabs # {cur}
    /\ \E resp \in {"Yes", "No", "Cancel"}, p \in Paths \cup {NoPath},
          ok \in BOOLEAN :
         \/ /\ ~modified[cur] \/ resp = "No"
            /\ resp = "No" /\ p = NoPath /\ ok
            /\ RemoveTab(cur)
            /\ last' = Finished("close_tab", 0, FALSE)
            /\ UNCHANGED <<docs, pc, scanvars, results, countvars, disk,
                           tab_paths, modified, autosave_map, autosave_dir,
                           handler, lint_calls>>
         \/ /\ modified[cur] /\ resp = "Cancel"
            /\ p = NoPath /\ ok
            /\ last' = Finished("close_tab_cancel", 0, FALSE)
            /\ UNCHANGED <<docs, cur, pc, scanvars, results, countvars, disk,
                           tab_paths, modified, autosave_map, autosave_dir,
                           handler, lint_calls, open_tabs>>
         \/ /\ modified[cur] /\ resp = "Yes"
            /\ tab_paths[cur] # NoPath
            /\ p = NoPath
            /\ IF ok
               THEN /\ disk' = WriteFile(disk, tab_paths[cur], text,
                                         markers[cur])
                    /\ modified' = [modified EXCEPT ![cur] = FALSE]
                    /\ autosave_map' = [autosave_map EXCEPT ![cur] = NoPath]
                    /\ autosave_dir' = DirAfterRemove(cur)
               ELSE UNCHANGED <<disk, modified, autosave_map, autosave_dir>>
            /\ RemoveTab(cur)
            /\ last' = Finished("close_tab", 0, ok)
            /\ UNCHANGED <<docs, pc, scanvars, results, countvars,
                           tab_paths, handler, lint_calls>>
         \/ /\ modified[cur] /\ resp = "Yes"
            /\ tab_paths[cur] = NoPath
            /\ IF p # NoPath /\ ok
               THEN /\ disk' = WriteFile(disk, p, text, markers[cur])
                    /\ tab_paths' = [tab_paths EXCEPT ![cur] = p]
                    /\ modified' = [modified EXCEPT ![cur] = FALSE]
                    /\ handler' = "close_tab"
                    /\ lint_calls' = 1
                    /\ StartPass
                    /\ UNCHANGED <<autosave_map, autosave_dir, last,
                                   open_tabs>>
               ELSE /\ autosave_map' =
                          IF p = NoPath THEN autosave_map
                          ELSE [autosave_map EXCEPT ![cur] = NoPath]
                    /\ autosave_dir' =
                          IF p = NoPath THEN autosave_dir
                          ELSE DirAfterRemove(cur)
                    /\ RemoveTab(cur)
                    /\ last' = Finished("close_tab", 0, FALSE)
                    /\ UNCHANGED <<docs, pc, scanvars, results, countvars,
                                   disk, tab_paths, modified, handler,
                                   lint_calls>>
    /\ UNCHANGED <<cursor, displayvars, timervars, autosave_timers, manager>>

\* close_tab after save_file_as and its call of lint_script:
\* remove_autosave_for, then removeTab
CloseReturn ==
    /\ handler = "close_tab"
    /\ pc \in {"done", "raised"}
    /\ autosave_map' = [autosave_map EXCEPT ![cur] = NoPath]
    /\ autosave_dir' = DirAfterRemove(cur)
    /\ RemoveTab(cur)
    /\ handler' = "none"
    /\ lint_calls' = 0
    /\ last' = Finished("close_tab", lint_calls, TRUE)
    /\ UNCHANGED <<docs, pc, scanvars, results, countvars, modified,
                   tab_paths, disk, cursor, displayvars, timervars,
                   autosave_timers, manager>>

\* closeEvent takes the tab for unsaved: its document is modified, or it
\* is untitled with a text that is neither blank nor the template, or it
\* is titled and its file differs from the text
Unsaved(t) ==
    \/ modified[t]
    \/ /\ tab_paths[t] = NoPath
       /\ Strip(docs[t]) # <<>>
       /\ Strip(docs[t]) # Strip(Template)
    \/ /\ tab_paths[t] # NoPath
       /\ disk[tab_paths[t]] # docs[t]

\* the directory after the clean-up of closeEvent: the artifacts the index
\* lists and the index are removed
DirAfterCleanup ==
    [index |-> {},
     files |-> [f \in DOMAIN autosave_dir.files |->
                  IF \E e \in autosave_dir.index : e.file = f
                  THEN <<>>
                  ELSE autosave_dir.files[f]]]

\* closeEvent: with a tab taken for unsaved autosave_all runs, else the
\* directory is cleaned up; the window is gone afterwards
CloseEvent ==
    /\ Idle
    /\ IF \E t \in open_tabs : Unsaved(t)
       THEN /\ autosave_map' = MapAfterAutosaveAll
            /\ autosave_dir' = DirAfterAutosaveAll
       ELSE /\ autosave_dir' = DirAfterCleanup
            /\ UNCHANGED autosave_map
    /\ handler' = "closed"
    /\ last' = Finished("closeEvent", 0, FALSE)
    /\ UNCHANGED <<docs, cur, pc, scanvars, results, countvars, modified,
                   tab_paths, disk, cursor, displayvars, timervars,
                   lint_calls, open_tabs, autosave_timers, manager>>

\* the artifact of an index entry can be loaded
Readable(file) ==
    /\ autosave_dir.files[file] # <<>>
    /\ JsonValid(autosave_dir.files[file][1].content)

\* the artifacts check_autosave_recovery loads, in the order of the index
Recovered ==
    SelectSeq(OldFileList,
              LAMBDA f : (\E e \in autosave_dir.index : e.file = f)
                         /\ Readable(f))

\* check_autosave_recovery at the start of a session: without an index
\* nothing is asked; after Yes new_tab opens a tab for each artifact that
\* loads (tabs 2, 3, ... in the order of the index, the last one current,
\* none with a working autosave timer), then the listed artifacts and the
\* index are removed; after No nothing is done
Recover ==
    /\ last = NoAction
    /\ pc = "idle"
    /\ \E answer \in {"Yes", "No"} :
         IF autosave_dir.index = {}
         THEN /\ answer = "No"
              /\ last' = Finished("no_recovery", 0, FALSE)
              /\ UNCHANGED <<docs, cur, tab_paths, open_tabs, autosave_dir>>
         ELSE IF answer = "No"
         THEN /\ last' = Finished("recovery_declined", 0, FALSE)
              /\ UNCHANGED <<docs, cur, tab_paths, open_tabs, autosave_dir>>
         ELSE LET new == {1 + n : n \in 1..Len(Recovered)}
                  data(t) == autosave_dir.files[Recovered[t - 1]][1]
              IN /\ docs' = [t \in DOMAIN docs |->
                               IF t \in new THEN JsonLoad(data(t).content)
                               ELSE docs[t]]
                 /\ tab_paths' = [t \in DOMAIN docs |->
                               IF t \in new THEN data(t).filename
                               ELSE tab_paths[t]]
                 /\ open_tabs' = open_tabs \cup new
                 /\ cur' = 1 + Len(Recovered)
                 /\ autosave_dir' = DirAfterCleanup
                 /\ last' = Finished("recovery_accepted", 0, FALSE)
    /\ UNCHANGED <<pc, scanvars, results, countvars, modified, autosave_map,
                   disk, cursor, displayvars, timervars, handler, lint_calls,
                   autosave_timers, manager>>

\* the preferences dialog is saved with the live lint box checked (b) or
\* not: the setting is stored, and when checked a lint is scheduled
SetLintLive ==
    /\ Idle
    /\ \E b \in BOOLEAN :
         /\ lint_live' = BoolValue(b)
         /\ pref_timer' = (pref_timer \/ b)
         /\ last' = Finished(IF b THEN "prefs_on" ELSE "prefs_off", 0, FALSE)
    /\ UNCHANGED <<docs, cur, pc, scanvars, results, countvars, editorvars,
                   displayvars, timer, timer_tab, timer_left, handler,
                   lint_calls, autosavevars, manager>>

\* the single shot of the preferences dialog times out: lint_script
PrefTimerFire ==
    /\ Idle
    /\ pref_timer
    /\ pref_timer' = FALSE
    /\ StartPass
    /\ UNCHANGED <<editorvars, displayvars, timer, timer_tab, timer_left,
                   lint_live, handlervars, autosavevars, manager>>

\* goto_error: the line a url leads to, 0 when the handler returns early
\* (the url does not start with 'line:', or int() fails on what follows)
GotoErrorLine(url) ==
    IF url[1] = "line" /\ Len(url) = 2 THEN url[2] ELSE 0

\* a link of the console is clicked: anchorClicked runs goto_error
ClickLink ==
    /\ Idle
    /\ \E n \in 1..Len(console) :
         LET ln == GotoErrorLine(console[n].href)
         IN /\ IF ln # 0 /\ BlockValid(text, ln - 1)
               THEN /\ cursor' = [cursor EXCEPT
                                    ![cur] = BlockPosition(text, ln - 1)]
                    /\ selections' = [selections EXCEPT
                          ![cur] = <<<<BlockPosition(text, ln - 1), 0>>>>]
               ELSE UNCHANGED <<cursor, selections>>
            /\ last' = [name |-> "goto_error", lints |-> 0,
                        wrote |-> FALSE, link |-> n]
    /\ UNCHANGED <<docs, cur, pc, scanvars, results, countvars, modified,
                   tab_paths, autosave_map, disk, console, markers,
                   timervars, handler, lint_calls, autosavevars, manager>>

Next ==
    \/ LintStart
    \/ ScanChar
    \/ NextLine
    \/ EndOfText
    \/ ReportString
    \/ ReportOpening
    \/ LintEnd

Spec == Init /\ [][Next]_vars

SpecStrings == InitStrings /\ [][Next]_vars

\* lint_script runs to its end once it is entered: nothing else runs on the
\* interface thread meanwhile
SpecTotal == InitTotal /\ [][Next]_vars /\ WF_vars(Next)

\* one editor that is edited, linted and navigated from the console
InitDisplay ==
    /\ docs = [t \in OneTab |-> Template]
    /\ cur = 1
    /\ InitLocals
    /\ InitIde

NextDisplay ==
    \/ Next
    \/ EditDisplay
    \/ TimerFire
    \/ ClickLink

SpecDisplay == InitDisplay /\ [][NextDisplay]_vars

EditIde == Edit(IdeTexts)
EditTabs == Edit(TabsTexts)

\* two editors that are edited, saved, deployed and linted by the timer
InitIde2 ==
    /\ docs = [t \in Tabs |-> Template]
    /\ cur = 1
    /\ InitLocals
    /\ InitIde

NextIde ==
    \/ ScanChar
    \/ NextLine
    \/ EndOfText
    \/ ReportString
    \/ ReportOpening
    \/ LintEnd
    \/ EditTabs
    \/ SwitchTab
    \/ TimerFire
    \/ SaveFile
    \/ SaveFileAs
    \/ SaveReturn
    \/ Autosave

SpecIde == InitIde2 /\ [][NextIde]_vars

\* one editor that is edited, saved, deployed and linted
InitSave ==
    /\ docs = [t \in OneTab |-> Template]
    /\ cur = 1
    /\ InitLocals
    /\ InitIde

NextSave ==
    \/ ScanChar
    \/ NextLine
    \/ EndOfText
    \/ ReportString
    \/ ReportOpening
    \/ LintEnd
    \/ LintRaise
    \/ EditIde
    \/ TimerFire
    \/ SaveFile
    \/ SaveFileAs
    \/ SaveReturn
    \/ Deploy
    \/ DeployReturn

SpecSave == InitSave /\ [][NextSave]_vars

\* one editor and the live lint preference, stored as a bool or as a string
InitLive ==
    /\ docs = [t \in OneTab |-> Template]
    /\ cur = 1
    /\ InitLocals
    /\ \E v \in LintLiveValues : InitIdeWith(v)

NextLive ==
    \/ ScanChar
    \/ NextLine
    \/ EndOfText
    \/ ReportString
    \/ ReportOpening
    \/ LintEnd
    \/ EditIde
    \/ TimerFire
    \/ SetLintLive
    \/ PrefTimerFire
    \/ SaveFileAs
    \/ SaveReturn
    \/ Deploy
    \/ DeployReturn

SpecLive == InitLive /\ [][NextLive]_vars

\* the longest text of the debounce specification SpecBurst
MaxBurstLen == 2

BurstTexts == SeqsUpTo(IdeChars, MaxBurstLen)

EditBurst == Edit(BurstTexts)

\* the longest text typed in the autosave specification SpecAutosave
MaxAutoLen == 1

\* the texts of SpecAutosave: a typed text that is not empty, or the
\* template again
AutoTexts == (SeqsUpTo(TabsChars, MaxAutoLen) \ {<<>>}) \cup {Template}

EditAuto == Edit(AutoTexts)

\* two editors, the initial one and one of new_tab, with live lint
\* switched off in the preferences
InitAutosave ==
    /\ docs = [t \in Tabs |-> Template]
    /\ cur = 1
    /\ InitLocals
    /\ InitIdeWith(BoolValue(FALSE))

\* the editors are edited, saved, autosaved and closed, and the window is
\* closed
NextAutosave ==
    \/ ScanChar
    \/ NextLine
    \/ EndOfText
    \/ ReportString
    \/ ReportOpening
    \/ LintEnd
    \/ EditAuto
    \/ SwitchTab
    \/ SaveFile
    \/ SaveFileAs
    \/ SaveReturn
    \/ Autosave
    \/ AutosaveAll
    \/ CloseTab
    \/ CloseReturn
    \/ CloseEvent

SpecAutosave == InitAutosave /\ [][NextAutosave]_vars

\* the longest text of an artifact in the recovery specification
MaxRecLen == 2

\* the texts a previous session autosaved: quotes, backslashes, line ends
RecTexts == SeqsUpTo({DQ, BS, NL, "n"}, MaxRecLen)

\* what a previous session can leave in a file of the autosave directory:
\* nothing, an artifact, or the truncated beginning of one
OldArtifacts ==
    {<<>>} \cup
    {<<[filename |-> p, content |-> x]>> :
        p \in Paths \cup {NoPath},
        x \in {JsonDump(t) : t \in RecTexts} \cup {<<BS>>}}

\* the start of a session in front of the directory of a previous one:
\* the initial editor is open, the other editors do not exist yet
InitRecovery ==
    /\ docs = [t \in 1..(1 + Len(OldFileList)) |->
                 IF t = 1 THEN Template ELSE <<>>]
    /\ cur = 1
    /\ InitLocals
    /\ InitWindow(BoolValue(TRUE))
    /\ manager = NewManager(Storage)
    /\ open_tabs = {1}
    /\ autosave_timers = [t \in DOMAIN docs |-> "none"]
    /\ \E listed \in SUBSET OldFiles,
          names \in [OldFiles -> Paths \cup {NoPath}],
          files \in [OldFiles -> OldArtifacts] :
         autosave_dir =
            [index |-> {[file |-> f, filename |-> names[f]] : f \in listed},
             files |-> [f \in DOMAIN EmptyDir.files \cup OldFiles |->
                          IF f \in OldFiles THEN files[f] ELSE <<>>]]

NextRecovery ==
    \/ Recover
    \/ CloseEvent

SpecRecovery == InitRecovery /\ [][NextRecovery]_vars

\* the calls of the injection manager
NextInject ==
    \/ SetCustomPaths
    \/ GetScriptPath
    \/ InjectScript

SpecInject == InitInject /\ [][NextInject]_vars

\* one editor whose text changes while time passes
NextBurst ==
    \/ ScanChar
    \/ NextLine
    \/ EndOfText
    \/ ReportString
    \/ ReportOpening
    \/ LintEnd
    \/ EditBurst
    \/ Tick
    \/ TimerDue

SpecBurst == InitSave /\ [][NextBurst]_vars

NextPasses ==
    \/ Next
    \/ SwitchTab

SpecPasses == InitPasses /\ [][NextPasses]_vars

\* ------------------------------------------------------------------------
\* Vocabulary of the properties
\* ------------------------------------------------------------------------
\* the scan is about to read the character at line i, column j
AtChar == pc = "scan" /\ i <= Len(lines) /\ j < Len(lines[i])

\* the scan has just read the character at line i, column j - 1
PastChar == pc = "scan" /\ i <= Len(lines) /\ j >= 1

CorrespondingOpener(c) ==
    IF c = "}" THEN "{" ELSE IF c = ")" THEN "(" ELSE "["

ClosingMsgOf(c) ==
    IF c = "}" THEN "Unmatched closing '}'"
    ELSE IF c = ")" THEN "Unmatched closing ')'"
    ELSE "Unmatched closing ']'"

OpeningMsgOf(c) ==
    IF c = "{" THEN "Unmatched opening '{'"
    ELSE IF c = "(" THEN "Unmatched opening '('"
    ELSE "Unmatched opening '['"

ClosingMsgs == {ClosingMsgOf(c) : c \in CloseBrackets}
OpeningMsgs == {OpeningMsgOf(c) : c \in OpenBrackets}
UnterminatedMsg == "Unterminated string literal"

Diag(line, col, msg) == [line |-> line, col |-> col, len |-> 1, msg |-> msg]

\* (line, col) of a comes before (line, col) of b
PosLess(a, b) == a.line < b.line \/ (a.line = b.line /\ a.col < b.col)

StringVarsUnchanged ==
    /\ in_string' = in_string
    /\ string_char' = string_char
    /\ string_start_line' = string_start_line
    /\ string_start_col' = string_start_col

\* ------------------------------------------------------------------------
\* C1: when the scan reads a closing bracket outside a string, either the
\* stack's top is the corresponding opener, and then the top is popped and
\* no diagnostic is added, or one "Unmatched closing '<char>'" diagnostic of
\* length 1 is appended at (line, col) and the stack is left as it was.
\* ------------------------------------------------------------------------
C1_ClosingBracket ==
    [][ (AtChar /\ ~in_string /\ lines[i][j + 1] \in CloseBrackets) =>
          IF /\ stack # <<>>
             /\ stack[Len(stack)].ch = CorrespondingOpener(lines[i][j + 1])
          THEN /\ stack' = SubSeq(stack, 1, Len(stack) - 1)
               /\ errors' = errors
          ELSE /\ errors' = Append(errors,
                                Diag(i, j, ClosingMsgOf(lines[i][j + 1])))
               /\ stack' = stack ]_vars

\* a closer that does not match a non-empty stack has been reported and the
\* stack still holds the opener
C1_Witness ==
    /\ PastChar
    /\ lines[i][j] \in CloseBrackets
    /\ stack # <<>>
    /\ stack[Len(stack)].ch # CorrespondingOpener(lines[i][j])
    /\ errors # <<>>
    /\ errors[Len(errors)] = Diag(i, j - 1, ClosingMsgOf(lines[i][j]))

\* ------------------------------------------------------------------------
\* C2: at the end of a pass the diagnostics end with one "Unmatched
\* opening '<char>'" diagnostic of length 1 per entry left on the stack, at
\* the position where that opener stands in the text, earliest opener
\* first, and no other diagnostic is an "Unmatched opening"; the text
\* a(a yields exactly one diagnostic, at the opener.
\* ------------------------------------------------------------------------
C2_UnmatchedOpenings ==
    pc = "done" =>
        LET n == Len(stack)
            m == Len(errors)
        IN /\ m >= n
           /\ \A q \in 1..n :
                /\ errors[m - n + q] =
                     Diag(stack[q].line, stack[q].col, OpeningMsgOf(stack[q].ch))
                /\ stack[q].ch \in OpenBrackets
                /\ lines[stack[q].line][stack[q].col + 1] = stack[q].ch
           /\ \A q \in 1..(n - 1) : PosLess(stack[q], stack[q + 1])
           /\ \A q \in 1..(m - n) : errors[q].msg \notin OpeningMsgs
           /\ (text = <<"a", "(", "a">> =>
                 errors = <<Diag(1, 1, "Unmatched opening '('")>>)

\* the three openers { [ ( are reported in that order
C2_Witness ==
    /\ pc = "done"
    /\ text = <<"{", "[", "(">>
    /\ errors = <<Diag(1, 0, "Unmatched opening '{'"),
                  Diag(1, 1, "Unmatched opening '['"),
                  Diag(1, 2, "Unmatched opening '('")>>

\* ------------------------------------------------------------------------
\* C3: a pass reports "Unterminated string literal" exactly when the scan
\* ended in string mode, and then exactly once, with length 1, at the
\* unescaped quote that opened the string still open: no unescaped quote of
\* its type follows it.  The text "a yields exactly this one diagnostic.
\* ------------------------------------------------------------------------
NoLaterQuote(l, c, q) ==
    \A l2 \in l..Len(lines) : \A c2 \in 0..(Len(lines[l2]) - 1) :
        ((l2 > l \/ c2 > c) /\ lines[l2][c2 + 1] = q)
            => (c2 > 0 /\ lines[l2][c2] = BS)

C3_UnterminatedString ==
    pc = "done" =>
        LET S == {q \in 1..Len(errors) : errors[q].msg = UnterminatedMsg}
        IN /\ in_string <=> Cardinality(S) = 1
           /\ ~in_string => S = {}
           /\ \A q \in S :
                LET l == errors[q].line
                    c == errors[q].col
                IN /\ errors[q].len = 1
                   /\ l = string_start_line /\ c = string_start_col
                   /\ l \in 1..Len(lines)
                   /\ c \in 0..(Len(lines[l]) - 1)
                   /\ lines[l][c + 1] \in Quotes
                   /\ lines[l][c + 1] = string_char
                   /\ c > 0 => lines[l][c] # BS
                   /\ NoLaterQuote(l, c, lines[l][c + 1])
           /\ (text = <<DQ, "a">> => errors = <<Diag(1, 0, UnterminatedMsg)>>)

\* after a closed string a second one is opened and never closed: the
\* diagnostic is anchored at the second opening quote
C3_Witness ==
    /\ pc = "done"
    /\ text = <<DQ, "a", DQ, DQ, "a">>
    /\ errors = <<Diag(1, 3, UnterminatedMsg)>>

\* ------------------------------------------------------------------------
\* C4: the diagnostics are kept in the order of discovery: first the
\* "Unmatched closing" ones in strictly increasing (line, col), then at
\* most one "Unterminated string literal", then the "Unmatched opening"
\* ones; the sequence is not sorted by position.
\* ------------------------------------------------------------------------
Kind(e) ==
    IF e.msg \in ClosingMsgs THEN 1
    ELSE IF e.msg = UnterminatedMsg THEN 2
    ELSE IF e.msg \in OpeningMsgs THEN 3
    ELSE 0

C4_DiscoveryOrder ==
    /\ \A a \in 1..Len(errors) : Kind(errors[a]) \in 1..3
    /\ \A a, b \in 1..Len(errors) :
         a < b =>
            /\ Kind(errors[a]) <= Kind(errors[b])
            /\ (Kind(errors[a]) = 1 /\ Kind(errors[b]) = 1)
                  => PosLess(errors[a], errors[b])
            /\ ~(Kind(errors[a]) = 2 /\ Kind(errors[b]) = 2)

\* all three kinds occur, and the string is reported before an opener that
\* stands to its left
C4_Witness ==
    /\ pc = "done"
    /\ Len(errors) = 3
    /\ Kind(errors[1]) = 1 /\ Kind(errors[2]) = 2 /\ Kind(errors[3]) = 3
    /\ PosLess(errors[3], errors[2])

\* ------------------------------------------------------------------------
\* C5: a text without quote characters has no diagnostics exactly when its
\* brackets are properly nested, that is when deleting adjacent matching
\* pairs again and again deletes every bracket.
\* ------------------------------------------------------------------------
IsBracket(c) == c \in OpenBrackets \cup CloseBrackets
BracketsOf(s) == SelectSeq(s, IsBracket)

AdjacentPair(s, p) ==
    s[p + 1] \in CloseBrackets /\ s[p] = CorrespondingOpener(s[p + 1])

RECURSIVE Reduce(_)
Reduce(s) ==
    IF \E p \in 1..(Len(s) - 1) : AdjacentPair(s, p)
    THEN LET p == CHOOSE p \in 1..(Len(s) - 1) : AdjacentPair(s, p)
         IN Reduce(SubSeq(s, 1, p - 1) \o SubSeq(s, p + 2, Len(s)))
    ELSE s

ProperlyNested(s) == Reduce(BracketsOf(s)) = <<>>

NoQuotes(s) == \A p \in 1..Len(s) : s[p] \notin Quotes

C5_NestedIffClean ==
    (pc = "done" /\ NoQuotes(text)) =>
        /\ errors = <<>> <=> ProperlyNested(text)
        /\ (\A p \in 1..Len(text) : ~IsBracket(text[p])) => errors = <<>>

\* a pair nested in another pair is clean
C5_Witness ==
    /\ pc = "done"
    /\ text = <<"{", "(", ")", "}">>
    /\ errors = <<>>

\* ------------------------------------------------------------------------
\* C6: for the text (] the closer is reported once, at line 1, column 1,
\* while the stack keeps the ( ; at the end of the pass the ( is reported
\* after it, at line 1, column 0.
\* ------------------------------------------------------------------------
C6_ParenBracket ==
    text = <<"(", "]">> =>
        /\ ((pc = "scan" /\ (i > 1 \/ j = 2)) \/ pc = "string"
               \/ (pc = "openers" /\ k = 1))
             => /\ errors = <<Diag(1, 1, "Unmatched closing ']'")>>
                /\ stack = <<[ch |-> "(", line |-> 1, col |-> 0]>>
        /\ pc = "done"
             => errors = <<Diag(1, 1, "Unmatched closing ']'"),
                           Diag(1, 0, "Unmatched opening '('")>>

C6_Witness ==
    /\ pc = "done"
    /\ text = <<"(", "]">>
    /\ Len(errors) = 2
    /\ Len(stack) = 1

\* ------------------------------------------------------------------------
\* C7: string mode changes only at unescaped quotes.  Outside a string an
\* unescaped quote enters string mode and records its type and position;
\* inside a string an unescaped quote of the same type leaves string mode
\* and clears the record, one of the other type changes nothing.  A text
\* made of complete literals (each running from an unescaped quote to the
\* next unescaped quote of its type) with no bracket and no unescaped quote
\* between them has no diagnostics.
\* ------------------------------------------------------------------------
\* the quote at position p of the flat text s is not preceded by a backslash
UnescapedAt(s, p) == s[p] \in Quotes /\ (p = 1 \/ s[p - 1] # BS)

Closers(s, p) == {r \in (p + 1)..Len(s) : s[r] = s[p] /\ s[r - 1] # BS}

Least(S) == CHOOSE x \in S : \A y \in S : x <= y

RECURSIVE CompleteLiterals(_, _)
CompleteLiterals(s, p) ==
    IF p > Len(s) THEN TRUE
    ELSE IF UnescapedAt(s, p)
         THEN /\ Closers(s, p) # {}
              /\ CompleteLiterals(s, Least(Closers(s, p)) + 1)
         ELSE /\ ~IsBracket(s[p])
              /\ CompleteLiterals(s, p + 1)

UnescapedQuoteNext ==
    AtChar /\ lines[i][j + 1] \in Quotes /\ (j = 0 \/ lines[i][j] # BS)

C7_StringMode ==
    [][ /\ UnescapedQuoteNext =>
            /\ IF ~in_string
               THEN /\ in_string'
                    /\ string_char' = lines[i][j + 1]
                    /\ string_start_line' = i
                    /\ string_start_col' = j
               ELSE IF lines[i][j + 1] = string_char
                    THEN /\ ~in_string'
                         /\ string_char' = NoneChar
                         /\ string_start_line' = NoneInt
                         /\ string_start_col' = NoneInt
                    ELSE StringVarsUnchanged
            /\ stack' = stack
            /\ errors' = errors
        /\ (pc = "scan" /\ ~UnescapedQuoteNext) => StringVarsUnchanged
        /\ (pc' = "done" /\ CompleteLiterals(text', 1)) => errors' = <<>>
      ]_vars

\* two complete literals with text between them, found clean
C7_Witness ==
    /\ pc = "done"
    /\ text = <<DQ, DQ, "a", DQ, DQ>>
    /\ errors = <<>>

\* ------------------------------------------------------------------------
\* C8: the diagnostics of a pass depend on the linted text only: two
\* finished passes over the same text, on the same tab or on different
\* tabs, and whatever was linted between them, gave the same sequence.
\* ------------------------------------------------------------------------
C8_PureFunction ==
    \A r1, r2 \in results : r1[2] = r2[2] => r1[3] = r2[3]

\* a pass over ) has run on tab 2 and a pass over ( on tab 1
C8_Witness ==
    /\ pc = "done"
    /\ docs[1] = <<"(">>
    /\ docs[2] = <<")">>
    /\ <<1, <<"(">>, <<Diag(1, 0, "Unmatched opening '('")>>>> \in results
    /\ <<2, <<")">>, <<Diag(1, 0, "Unmatched closing ')'")>>>> \in results

\* ------------------------------------------------------------------------
\* C9: a quote that follows a backslash on its line neither opens nor
\* closes a string, also when that backslash itself follows a backslash; a
\* quote at column 0 is read as unescaped whatever ends the line before.
\* ------------------------------------------------------------------------
C9_Escape ==
    [][ (AtChar /\ lines[i][j + 1] \in Quotes) =>
          /\ (j > 0 /\ lines[i][j] = BS) =>
                /\ StringVarsUnchanged
                /\ stack' = stack
                /\ errors' = errors
          /\ j = 0 =>
                /\ ~in_string =>
                      /\ in_string'
                      /\ string_char' = lines[i][1]
                      /\ string_start_line' = i
                      /\ string_start_col' = 0
                /\ (in_string /\ lines[i][1] = string_char) => ~in_string'
      ]_vars

\* the quote after backslash-backslash inside an open string of its type
\* has been read and the string is still open
C9_Witness ==
    /\ PastChar
    /\ j >= 4
    /\ lines[i][j] \in Quotes
    /\ lines[i][j - 1] = BS
    /\ lines[i][j - 2] = BS
    /\ in_string
    /\ string_char = lines[i][j]
    /\ string_start_line = i
    /\ string_start_col < j - 3

\* the quote at column 0 of a line that follows a line ending in a
\* backslash has closed the string opened on that line
C9_WitnessLineStart ==
    /\ PastChar
    /\ i >= 2
    /\ j = 1
    /\ lines[i][1] \in Quotes
    /\ Len(lines[i - 1]) >= 2
    /\ lines[i - 1][Len(lines[i - 1])] = BS
    /\ lines[i - 1][1] = lines[i][1]
    /\ ~in_string

\* ------------------------------------------------------------------------
\* C10: string mode is carried over the line boundaries: while the scan is
\* in a string no step pushes, pops or reports anything, and only reading
\* an unescaped quote of the string's type changes the string mode.
\* ------------------------------------------------------------------------
C10_StringAbsorbs ==
    [][ (pc = "scan" /\ in_string /\ pc' = "scan") =>
          /\ stack' = stack
          /\ errors' = errors
          /\ ~(UnescapedQuoteNext /\ lines[i][j + 1] = string_char)
                => StringVarsUnchanged
      ]_vars

\* a bracket on a later line than the opening quote has been read without
\* any effect
C10_Witness ==
    /\ PastChar
    /\ i >= 2
    /\ in_string
    /\ string_start_line < i
    /\ IsBracket(lines[i][j])
    /\ stack = <<>>
    /\ errors = <<>>

\* ------------------------------------------------------------------------
\* C11: the scan is total.  It reads the characters of each line one by
\* one, from column 0 to the end of the line, takes the lines in order,
\* leaves the loop only after the last line, never changes the lines it
\* scans, and every pass that is entered comes to its end.
\* ------------------------------------------------------------------------
C11_Total ==
    /\ [][ /\ (pc # "scan" /\ pc' = "scan") => (i' = 1 /\ j' = 0)
           /\ AtChar => (pc' = "scan" /\ i' = i /\ j' = j + 1)
           /\ (pc = "scan" /\ i <= Len(lines) /\ ~AtChar) =>
                 (j = Len(lines[i]) /\ pc' = "scan" /\ i' = i + 1 /\ j' = 0)
           /\ (pc = "scan" /\ i > Len(lines)) =>
                 (i = Len(lines) + 1 /\ pc' = "string")
           /\ pc \in {"scan", "string", "openers"} =>
                 (lines' = lines /\ docs' = docs)
         ]_vars
    /\ (pc = "scan") ~> (pc = "done")

\* a pass over an unbalanced, unterminated text of two lines has ended
C11_Witness ==
    /\ pc = "done"
    /\ text = <<")", NL, DQ>>
    /\ Len(errors) = 2

\* ------------------------------------------------------------------------
\* C12: every push is accounted for once.  A pop happens only when a
\* closer of the top's type is read; at the end of a pass the pushes equal
\* the pops plus the "Unmatched opening" diagnostics; a pass without
\* diagnostics ends with an empty stack, outside string mode.
\* ------------------------------------------------------------------------
OpeningCount(errs) ==
    Cardinality({n \in 1..Len(errs) : errs[n].msg \in OpeningMsgs})

C12_PushesAccounted ==
    [][ /\ pops' # pops /\ pc = "scan" =>
            /\ AtChar
            /\ lines[i][j + 1] \in CloseBrackets
            /\ stack # <<>>
            /\ stack[Len(stack)].ch = CorrespondingOpener(lines[i][j + 1])
            /\ stack' = SubSeq(stack, 1, Len(stack) - 1)
            /\ pops' = pops + 1
        /\ pushes' # pushes /\ pc = "scan" =>
            /\ AtChar
            /\ lines[i][j + 1] \in OpenBrackets
            /\ Len(stack') = Len(stack) + 1
            /\ pushes' = pushes + 1
        /\ (pc = "scan" /\ Len(stack') # Len(stack)) =>
              (pushes' # pushes \/ pops' # pops)
        /\ pc' = "done" =>
            /\ pushes' = pops' + OpeningCount(errors')
            /\ errors' = <<>> => (stack' = <<>> /\ ~in_string')
      ]_vars

\* of two pushes one was popped and one is reported
C12_Witness ==
    /\ pc = "done"
    /\ text = <<"(", "[", "]">>
    /\ pushes = 2
    /\ pops = 1
    /\ OpeningCount(errors) = 1

\* a lint pass displays its diagnostics at this step
PassDisplayed == pc = "openers" /\ pc' = "done"

\* C14: after every lint pass on an editor, the marker list and the
\* underline selections of that editor hold exactly one (offset, length)
\* range per diagnostic of the pass, both are empty when the pass found no
\* diagnostic, and no marker of an earlier pass survives
C14_OneRangePerDiagnostic ==
    [][ PassDisplayed =>
          /\ Len(markers'[cur]) = Len(errors)
          /\ Len(selections'[cur]) = Len(errors)
          /\ \A n \in 1..Len(errors) :
                /\ markers'[cur][n] = MarkerOf(text, errors[n])
                /\ selections'[cur][n] = MarkerOf(text, errors[n])
      ]_vars

\* the offset of (line, col) in the text whose lines are ls: every
\* preceding line counts its length and one separator
RECURSIVE OffsetOfLine(_, _)
OffsetOfLine(ls, line) ==
    IF line <= 1 THEN 0
    ELSE OffsetOfLine(ls, line - 1) + Len(ls[line - 1]) + 1

OffsetOf(ls, e) == OffsetOfLine(ls, e.line) + e.col

\* the characters a diagnostic may report
ReportedChars(e) ==
    IF e.msg = MsgString THEN Quotes
    ELSE {c \in OpenBrackets \cup CloseBrackets :
             e.msg \in {MsgOpening(c), MsgClosing(c)}}

\* C19: every diagnostic is a link of the error list, and activating the
\* link moves the cursor of the current editor to the start of the
\* diagnostic's line
C19_LinkNavigates ==
    [][ /\ PassDisplayed =>
              /\ Len(console') = Len(errors)
              /\ \A n \in 1..Len(errors) :
                    console'[n].label =
                        <<errors[n].line, errors[n].col, errors[n].msg>>
        /\ (last'.name = "goto_error" /\ last' # last /\ pc = "done"
              /\ <<cur, text, errors>> \in results) =>
              cursor'[cur] = OffsetOfLine(lines, errors[last'.link].line)
      ]_vars

\* C20: the offset of the marker of a diagnostic at (line, col) is the sum
\* over the preceding lines of the scanned text of (length + 1), plus col,
\* and the character of the document at that offset is the bracket or the
\* quote the diagnostic reports
C20_MarkerOffset ==
    [][ PassDisplayed =>
          \A n \in 1..Len(errors) :
             BlockValid(text, errors[n].line - 1) =>
                /\ StartPos(text, errors[n]) = OffsetOf(lines, errors[n])
                /\ \E m \in 1..Len(markers'[cur]) :
                      markers'[cur][m][1] = OffsetOf(lines, errors[n])
                /\ OffsetOf(lines, errors[n]) < Len(text)
                /\ text[OffsetOf(lines, errors[n]) + 1]
                      \in ReportedChars(errors[n])
      ]_vars

\* a step of a lint pass, or the timer entering lint_script
InPass == pc \in {"scan", "string", "openers"}

\* C13: a lint pass only reads the document: it leaves the text of the
\* editors, the modified flags, the tab-to-path map, the autosave map (and
\* the files, the cursors, the current tab and the timers) unchanged; of the
\* display it changes only the error list and the selections and markers of
\* the linted editor
C13_LintOnlyReads ==
    [][ /\ (InPass \/ (pc' = "scan" /\ timer /\ ~timer')) =>
              /\ docs' = docs
              /\ modified' = modified
              /\ tab_paths' = tab_paths
              /\ autosave_map' = autosave_map
              /\ disk' = disk
              /\ cursor' = cursor
              /\ cur' = cur
              /\ \A t \in DOMAIN docs :
                    t # cur => /\ markers'[t] = markers[t]
                               /\ selections'[t] = selections[t]
        /\ InPass => <<timer, pref_timer, lint_live>>' =
                         <<timer, pref_timer, lint_live>>
        /\ <<console, markers, selections>>' # <<console, markers, selections>>
              => (InPass /\ pc' = "done")
      ]_vars

\* the second editor, changed and autosaved, was linted and marked while the
\* first, saved under a path, kept its state
C13_Witness ==
    /\ pc = "done"
    /\ cur = 2
    /\ docs[2] = <<"(">>
    /\ modified[2]
    /\ autosave_map[2] # NoPath
    /\ tab_paths[1] # NoPath
    /\ markers[2] = <<<<0, 1>>>>
    /\ markers[1] = <<>>
    /\ console # <<>>

\* the explicit actions that write the document
WritingActions == {"save_file", "save_file_as", "deploy_script"}

\* C15: after every explicit save (save_file on a tab with a path, save_file
\* on an untitled tab, save_file_as) and after every deploy the linter has
\* been invoked exactly once before the action returned
C15_LintOncePerSave ==
    (last.name \in WritingActions /\ last.wrote) => last.lints = 1

\* the latest text of editor t has been linted
Linted(t) == \E r \in results : r[1] = t /\ r[2] = docs[t]

\* C16: with live lint enabled, once the debounce timer has fired and its
\* pass is over, every editor whose text was changed has had a lint pass
\* over its latest text, whatever tab was current when the timer fired
C16_ChangedEditorLinted ==
    (LiveLintEnabled /\ ~timer /\ pc \in {"idle", "done"} /\ handler = "none")
        => \A t \in DOMAIN docs : modified[t] => Linted(t)

\* the file an action writes for the current editor
Target(name) == IF name = "deploy_script" THEN DeployPath ELSE tab_paths[cur]

\* C18: lint never blocks saving or deploying: a save or deploy whose write
\* succeeds leaves the text of the editor in the file whatever markers the
\* editor has, the lint pass it runs changes no file, path or modified
\* flag, and when that pass raises the action still returns as a
\* successful write with the file intact
C18_LintNeverBlocks ==
    [][ /\ (handler = "none" /\ handler' \in WritingActions) =>
              disk'[IF handler' = "deploy_script" THEN DeployPath
                    ELSE tab_paths'[cur]] = text
        /\ (last' # last /\ last'.name = "save_file" /\ last'.wrote
              /\ handler = "none") =>
              disk'[tab_paths[cur]] = text
        /\ (handler \in WritingActions /\ handler' = handler) =>
              /\ disk' = disk
              /\ tab_paths' = tab_paths
              /\ modified' = modified
        /\ (handler \in WritingActions /\ handler' = "none") =>
              /\ last'.name = handler
              /\ last'.wrote
              /\ disk' = disk
              /\ disk[Target(handler)] = text
              /\ tab_paths' = tab_paths
              /\ modified' = modified
      ]_vars

\* a deploy of a text with a diagnostic returned as a success although its
\* lint pass raised, and the file holds the text
C18_Witness ==
    /\ last.name = "deploy_script"
    /\ last.wrote
    /\ pc = "raised"
    /\ text = <<")">>
    /\ markers[cur] # <<>>
    /\ disk[DeployPath] = text

\* lint_script is entered at this step
PassStarts == pc # "scan" /\ pc' = "scan"

\* the preference is disabled: False, or one of the string forms
Disabled ==
    lint_live \in {BoolValue(FALSE)} \cup
                  {StrValue(x) : x \in {"0", "false", "no", "off"}}

\* C17: while the live lint preference is disabled (as a bool or in one of
\* its string forms) a text change neither starts the debounce timer nor
\* runs a lint pass, and a lint pass starts only through an explicit
\* action: a save, a deploy, or the preferences dialog
C17_DisabledNoLiveLint ==
    [][ Disabled =>
          /\ docs' # docs => (timer' = timer /\ pc' = pc)
          /\ PassStarts => \/ handler' \in WritingActions
                           \/ pref_timer /\ ~pref_timer'
      ]_vars

\* C17, amended: while the preference is disabled a text change neither
\* starts the debounce timer nor runs a lint pass, nothing starts the timer,
\* and a lint pass starts only through a save, a deploy, the preferences
\* dialog, or the timeout of a debounce timer that was started while the
\* preference was enabled
C17_DisabledOnlyPendingTimer ==
    [][ Disabled =>
          /\ docs' # docs => (timer' = timer /\ pc' = pc)
          /\ ~timer => ~timer'
          /\ PassStarts => \/ handler' \in WritingActions
                           \/ pref_timer /\ ~pref_timer'
                           \/ timer /\ ~timer'
      ]_vars

\* the text was changed while the preference was the string 'off': no timer
\* runs and no pass was started
C17_Witness ==
    /\ lint_live = StrValue("off")
    /\ last.name = "edit"
    /\ modified[cur]
    /\ docs[cur] = <<"(">>
    /\ ~timer
    /\ pc = "idle"

\* C21: every diagnostic identifies an existing character of the scanned
\* text: its line is one of the lines, its column is inside that line, its
\* length is 1, and the character there is the bracket its message names
\* (a quote for an unterminated string)
C21_DiagnosticInText ==
    \A n \in 1..Len(errors) :
        /\ errors[n].line \in 1..Len(lines)
        /\ errors[n].col \in 0..(Len(lines[errors[n].line]) - 1)
        /\ errors[n].len = 1
        /\ lines[errors[n].line][errors[n].col + 1] \in ReportedChars(errors[n])

\* a closer, an unterminated string and an opener, each reported in place
C21_Witness ==
    /\ pc = "done"
    /\ text = <<"}", NL, "[", SQ>>
    /\ Len(errors) = 3
    /\ errors[3].msg = MsgOpening("[")
    /\ errors[3].line = 2
    /\ errors[3].col = 0

\* C22: with live lint enabled every text change starts the one debounce
\* timer afresh; a lint pass starts only when the whole interval has passed
\* since the last change, from a state in which no pass is running, and it
\* leaves the timer stopped; the timer of a change stops only by its pass
C22_Debounce ==
    [][ /\ (docs' # docs /\ LiveLintEnabled) =>
              (timer' /\ timer_left' = DebounceTicks)
        /\ PassStarts =>
              (timer /\ timer_left = 0 /\ ~timer' /\ pc \in {"idle", "done"})
        /\ (timer /\ ~timer') => PassStarts ]_vars

\* the interval after the latest change has passed and its one pass is over
C22_Witness ==
    /\ last.name = "edit"
    /\ docs[cur] = <<"(">>
    /\ pc = "done"
    /\ Linted(cur)
    /\ ~timer
    /\ timer_left = 0

\* the script file inject_script is to write for its arguments
ScriptFileOf(r) ==
    [dir |-> r.folder,
     name |-> IF EndsWith(r.name, GscSuffix) THEN r.name
              ELSE r.name \o GscSuffix,
     content |-> r.script]

\* C23: inject_script returns True only when the method is
\* PLUTONIUM_SCRIPTS, a script folder was resolved and the script text is
\* in the file <folder>/<script_name with '.gsc' appended unless it ends in
\* '.gsc'>; when it returns False (another method, no folder, a failed
\* write) no script file has been written
C23_InjectOutcome ==
    manager.result.call = "inject_script" =>
        IF manager.result.ok
        THEN /\ manager.result.method = 0
             /\ manager.result.folder # <<>>
             /\ ScriptFileOf(manager.result) \in manager.files
        ELSE manager.files = {}

\* C24: with a non-empty override set for a game, get_script_path returns
\* the override followed by the layout of the game and the mode: an
\* absolute override is the base itself, a relative one is resolved under
\* the detected Plutonium storage path
C24_OverrideIsBase ==
    LET r == manager.result
        override == manager.custom_paths[r.game]
        layout == GameDir(r.game) \o ModeDir(r.mode)
    IN (/\ r.call = "get_script_path"
        /\ r.game \in DOMAIN manager.custom_paths
        /\ override # <<>>) =>
          /\ IsAbsolute(override) => r.folder = override \o layout
          /\ (~IsAbsolute(override) /\ manager.plutonium_path # <<>>) =>
                r.folder = manager.plutonium_path \o override \o layout

\* the autosave directory holds something of editor t: its artifact, or an
\* index entry that lists it
HasAutosave(t) ==
    \/ autosave_dir.files[AutosaveFile(t)] # <<>>
    \/ \E e \in autosave_dir.index : e.file = AutosaveFile(t)

\* editor t was saved to its file and its text has not changed since
SavedUnchanged(t) ==
    /\ tab_paths[t] # NoPath
    /\ ~modified[t]
    /\ handler # "save_file" /\ handler # "save_file_as"
    /\ handler # "close_tab"

\* C25: after save_file or save_file_as succeeded for an editor and until
\* its text changes again, the editor has no entry in autosave_map, no
\* artifact and no index entry, however the save interleaves with the
\* pending timer of the editor and with autosave_all
C25_SavedNoAutosave ==
    \A t \in DOMAIN docs :
        SavedUnchanged(t) => (autosave_map[t] = NoPath /\ ~HasAutosave(t))

\* C26: after closeEvent, when a tab had unsaved content as closeEvent
\* detects it, the index exists and lists for each such tab an artifact
\* with the tab's text; when no tab had, the index and the artifacts it
\* listed are removed
C26_CloseKeepsUnsaved ==
    [][ (handler # "closed" /\ handler' = "closed") =>
          IF \E t \in open_tabs : Unsaved(t)
          THEN /\ autosave_dir'.index # {}
               /\ \A t \in open_tabs : Unsaved(t) =>
                     \E e \in autosave_dir'.index :
                        /\ autosave_dir'.files[e.file] # <<>>
                        /\ autosave_dir'.files[e.file][1].content =
                              JsonDump(docs[t])
                        /\ e.filename = tab_paths[t]
          ELSE /\ autosave_dir'.index = {}
               /\ \A e \in autosave_dir.index :
                     autosave_dir'.files[e.file] = <<>> ]_vars

\* C28: every editor has an autosave timer of its own that each change of
\* its text starts again
C28_EditStartsAutosaveTimer ==
    [][ docs'[cur] # docs[cur] => autosave_timers'[cur] = "pending" ]_vars

\* C29: an editor whose tab close_tab has removed has no artifact and no
\* index entry, then and ever after
C29_ClosedNoAutosave ==
    \A t \in DOMAIN docs \ open_tabs : ~HasAutosave(t)

\* this step is a pass of autosave_all
AutosaveAllStep ==
    /\ last'.name = "autosave_all"
    /\ \/ last.name # "autosave_all"
       \/ autosave_dir' # autosave_dir
       \/ autosave_map' # autosave_map

\* C30: after a pass of autosave_all the index lists exactly the open tabs
\* whose document is modified (it is absent when there is none); the
\* artifact of each holds its text and path under the name the editor had
\* before, if it had one; nothing of the other editors is written
C30_AutosaveAllIndex ==
    [][ AutosaveAllStep =>
          /\ autosave_dir'.index =
                {[file |-> autosave_map'[t], filename |-> tab_paths[t]] :
                    t \in {u \in open_tabs : modified[u]}}
          /\ \A t \in DOMAIN docs :
                IF t \in open_tabs /\ modified[t]
                THEN /\ autosave_map'[t] # NoPath
                     /\ autosave_map[t] # NoPath =>
                           autosave_map'[t] = autosave_map[t]
                     /\ autosave_dir'.files[autosave_map'[t]] =
                           <<[filename |-> tab_paths[t],
                              content |-> JsonDump(docs[t])]>>
                ELSE /\ autosave_map'[t] = autosave_map[t]
                     /\ autosave_dir'.files[AutosaveFile(t)] =
                           autosave_dir.files[AutosaveFile(t)] ]_vars

\* autosave_all wrote the one modified tab under the name it had and left
\* the unmodified tab out of the index
C30_Witness ==
    /\ last.name = "autosave_all"
    /\ open_tabs = {1, 2}
    /\ modified[2] /\ ~modified[1]
    /\ docs[2] = <<"(">>
    /\ autosave_map[2] = AutosaveFile(2)
    /\ autosave_dir.index = {[file |-> AutosaveFile(2), filename |-> NoPath]}
    /\ autosave_dir.files[AutosaveFile(2)] =
          <<[filename |-> NoPath, content |-> <<"(">>]>>
    /\ autosave_dir.files[AutosaveFile(1)] = <<>>

\* the listed artifacts of the directory that can be loaded
ReadableListed ==
    {e.file : e \in {x \in autosave_dir.index : Readable(x.file)}}

\* C27: when recovery is accepted, one tab is opened per index entry whose
\* artifact is readable, with the path of the artifact and the text that
\* was autosaved into it, and the index and the listed artifacts are gone
\* afterwards; when it is declined no tab is opened
C27_RecoveryRoundTrip ==
    [][ (last = NoAction /\ last' # NoAction) =>
          IF last'.name = "recovery_accepted"
          THEN /\ \E f \in [ReadableListed -> open_tabs' \ open_tabs] :
                     /\ \A a, b \in ReadableListed : f[a] = f[b] => a = b
                     /\ \A t \in open_tabs' \ open_tabs :
                           \E a \in ReadableListed : f[a] = t
                     /\ \A a \in ReadableListed :
                           /\ tab_paths'[f[a]] =
                                 autosave_dir.files[a][1].filename
                           /\ JsonDump(docs'[f[a]]) =
                                 autosave_dir.files[a][1].content
               /\ autosave_dir'.index = {}
               /\ \A e \in autosave_dir.index :
                     autosave_dir'.files[e.file] = <<>>
          ELSE open_tabs' = open_tabs /\ docs' = docs ]_vars

\* two artifacts were recovered into two tabs, one with a line end and one
\* with a backslash before the letter n
C27_Witness ==
    /\ last.name = "recovery_accepted"
    /\ open_tabs = {1, 2, 3}
    /\ docs[2] = <<NL>>
    /\ docs[3] = <<BS, "n">>
    /\ tab_paths[2] = "p1"
    /\ tab_paths[3] = NoPath
    /\ autosave_dir.index = {}
    /\ \A f \in OldFiles : autosave_dir.files[f] = <<>>
====
